---- MODULE Spec2Model ----
(***************************************************************************)
(* Model of run.py, the benchmark-sweep driver of dprio.                   *)
(*                                                                         *)
(* The script is a straight-line program: two nested loops that call       *)
(* run(args), which launches the external binary with subprocess.run       *)
(* (capture_output=True, check=True), waits for it, and prints its stdout  *)
(* with the last byte dropped, decoded as UTF-8.  The external binary is   *)
(* the environment: whether it can be launched, its exit status and the    *)
(* bytes it writes are chosen nondeterministically.                        *)
(*                                                                         *)
(* Bytes are integers 0..255, text is a sequence of Unicode code points.   *)
(***************************************************************************)
EXTENDS Integers, Sequences, FiniteSets, TLC

VARIABLES
    pc,         \* where the script is: "call", "wait", "print", "done", "failed"
    loop,       \* which for-loop is executing: "dimensions" or "clients"
    idx,        \* 1-based position of the loop variable in its list
    mode,       \* 1: the "prio" call site of the loop body, 2: the "dprio" one
    rep,        \* the value of _ in range(0, 5)
    args,       \* the script's variable args
    result,     \* the CompletedProcess held by run, or the output an exception holds
    running,    \* the subprocesses in flight (numbered by launch order)
    launched,   \* history: every call of subprocess.run, [args, loop], in order
    exited,     \* history: [returncode, stdout] of every subprocess that exited
    printed,    \* the driver's standard output: one text per call of print
    error,      \* the uncaught exception that ended the script, or NoError
    varied,     \* how many invocations so far did not behave as the default stub
    last_stderr \* history, kept under SpecStderr only: the stderr that was
                \* captured for the invocation whose output was printed last

vars == <<pc, loop, idx, mode, rep, args, result, running, launched, exited,
          printed, error, varied, last_stderr>>

-----------------------------------------------------------------------------
(* Bounds of the model *)

\* At most this many invocations of one run, consecutive ones, deviate from
\* the default stub (exit 0, stdout b"hello\n"); the others behave as it does.
MaxVaried == 1

-----------------------------------------------------------------------------
(* The script's constants *)

Path == "./target/release/examples/comparison"

dimensions == <<"1", "8", "64", "256">>

clients_short == <<"10000", "100000">>

clients == <<"10000", "100000", "1000000">>

\* range(0, 5)
Repetitions == 5

args_prio_dimension(dimension) ==
    <<Path, "-f", "prio", "-d", dimension, "-c", "10000">>

args_dprio_dimensionCopied(dimension) ==
    <<Path, "-f", "prio", "-d", dimension, "-c", "10000">>

args_dprio_dimension(dimension) ==
    <<Path, "-f", "dprio", "-d", dimension, "-c", "10000">>

args_prio_clientsOther(n_clients) ==
    <<Path, "-f", "prio", "-d", "8", "-c", n_clients>>

args_prio_clients(n_clients) ==
    <<Path, "-f", "prio", "-d", "1", "-c", n_clients>>

args_dprio_clientsCopied(n_clients) ==
    <<Path, "-f", "dprio", "-d", n_clients, "-c", "10000">>

args_dprio_clients(n_clients) ==
    <<Path, "-f", "dprio", "-d", "1", "-c", n_clients>>

-----------------------------------------------------------------------------
(* The environment: what the external binary may do *)

HelloText == <<104, 101, 108, 108, 111>>

DefaultStdout == HelloText \o <<10>>

Stdouts ==
    { DefaultStdout,            \* b"hello\n"
      HelloText,                \* b"hello": no trailing newline
      <<>>,                     \* b""
      <<104, 195, 169, 10>>,    \* b"h\xc3\xa9\n": a two-byte character
      <<104, 195>>,             \* invalid as a whole, valid once the last byte is gone
      <<104, 195, 169>>,        \* valid as a whole, cut inside the last character
      <<255, 10>> }             \* invalid either way

Stderrs == { <<>>, <<101, 114, 114, 10>> }

ReturnCodes == { 0, 1, -9 }

-----------------------------------------------------------------------------
(* str(bytes, encoding="utf-8"): the strict UTF-8 decoder *)

IsCont(b) == b >= 128 /\ b <= 191

\* Length of the sequence a lead byte announces; 0 for a byte that cannot lead.
SeqLenOf(b) ==
    IF b < 128 THEN 1
    ELSE IF b >= 194 /\ b <= 223 THEN 2
    ELSE IF b >= 224 /\ b <= 239 THEN 3
    ELSE IF b >= 240 /\ b <= 244 THEN 4
    ELSE 0

\* The second byte's range depends on the lead byte (no overlong forms, no
\* surrogates, nothing above U+10FFFF).
SecondOk(b1, b2) ==
    IF b1 = 224 THEN b2 >= 160 /\ b2 <= 191
    ELSE IF b1 = 237 THEN b2 >= 128 /\ b2 <= 159
    ELSE IF b1 = 240 THEN b2 >= 144 /\ b2 <= 191
    ELSE IF b1 = 244 THEN b2 >= 128 /\ b2 <= 143
    ELSE IsCont(b2)

WellFormedAt(b, n) ==
    /\ n >= 1
    /\ Len(b) >= n
    /\ n >= 2 => SecondOk(b[1], b[2])
    /\ \A k \in 3..n : IsCont(b[k])

CodePoint(b, n) ==
    IF n = 1 THEN b[1]
    ELSE IF n = 2 THEN (b[1] - 192) * 64 + (b[2] - 128)
    ELSE IF n = 3 THEN (b[1] - 224) * 4096 + (b[2] - 128) * 64 + (b[3] - 128)
    ELSE (b[1] - 240) * 262144 + (b[2] - 128) * 4096 + (b[3] - 128) * 64 + (b[4] - 128)

RECURSIVE utf8_decode_ignore(_)
utf8_decode_ignore(b) ==
    IF b = <<>> THEN [ok |-> TRUE, text |-> <<>>]
    ELSE LET n == SeqLenOf(b[1])
         IN  IF WellFormedAt(b, n)
             THEN LET rest == utf8_decode_ignore(SubSeq(b, n + 1, Len(b)))
                  IN  [ok |-> TRUE, text |-> <<CodePoint(b, n)>> \o rest.text]
             ELSE utf8_decode_ignore(Tail(b))

RECURSIVE utf8_decode(_)
utf8_decode(b) ==
    IF b = <<>> THEN [ok |-> TRUE, text |-> <<>>]
    ELSE LET n == SeqLenOf(b[1])
         IN  IF WellFormedAt(b, n)
             THEN LET rest == utf8_decode(SubSeq(b, n + 1, Len(b)))
                  IN  [ok |-> rest.ok, text |-> <<CodePoint(b, n)>> \o rest.text]
             ELSE [ok |-> FALSE, text |-> <<>>]

\* result.stdout[:-1]
rstrip_newline(b) ==
    IF Len(b) > 0 /\ b[Len(b)] = 10 THEN SubSeq(b, 1, Len(b) - 1) ELSE b

drop_last(b) ==
    IF Len(b) = 0 THEN <<>> ELSE SubSeq(b, 1, Len(b) - 1)

\* print(text): one more text on the driver's standard output
print_first(out, text) == <<text>> \o out

print(out, text) == Append(out, text)

-----------------------------------------------------------------------------
(* Exceptions and results *)

NoError == [type |-> "None"]

NoResult == [returncode |-> 0, stdout |-> <<>>, stderr |-> <<>>, held |-> FALSE]

CompletedProcess(returncode, stdout, stderr) ==
    [returncode |-> returncode, stdout |-> stdout, stderr |-> stderr, held |-> TRUE]

\* check=True: raised by subprocess.run when the exit status is not 0
CalledProcessErrorBare(returncode, cmd) ==
    [type |-> "CalledProcessError", returncode |-> returncode, cmd |-> <<cmd[1]>>]

CalledProcessError(returncode, cmd) ==
    [type |-> "CalledProcessError", returncode |-> returncode, cmd |-> cmd]

\* raised by subprocess.run when the executable cannot be started: an OSError
\* (FileNotFoundError, PermissionError, ...) naming the executable
OSError(filename) == [type |-> "OSError", filename |-> filename]

UnicodeDecodeError == [type |-> "UnicodeDecodeError"]

-----------------------------------------------------------------------------
(* The script's control flow *)

Position(l, i, m, r, a, p) ==
    [loop |-> l, idx |-> i, mode |-> m, rep |-> r, args |-> a, pc |-> p]

\* A variant that alternates the two modes inside one repetition loop.
after_run_interleaved(l, i, m, r, a) ==
    LET list == IF l = "dimensions" THEN dimensions ELSE clients
        prio(v) == IF l = "dimensions" THEN args_prio_dimension(v)
                   ELSE args_prio_clients(v)
        dprio(v) == IF l = "dimensions" THEN args_dprio_dimension(v)
                    ELSE args_dprio_clients(v)
    IN  IF m = 1 THEN Position(l, i, 2, r, dprio(list[i]), "call")
        ELSE IF r + 1 < Repetitions
        THEN Position(l, i, 1, r + 1, prio(list[i]), "call")
        ELSE IF i < Len(list)
        THEN Position(l, i + 1, 1, 0, prio(list[i + 1]), "call")
        ELSE IF l = "dimensions"
        THEN Position("clients", 1, 1, 0, args_prio_clients(clients[1]), "call")
        ELSE Position(l, i, m, r, a, "done")

\* Where the script stands once run(args) has returned at position (l, i, m, r).
after_run(l, i, m, r, a) ==
    IF r + 1 < Repetitions
    THEN Position(l, i, m, r + 1, a, "call")
    ELSE IF l = "dimensions"
    THEN IF m = 1
         THEN Position(l, i, 2, 0, args_dprio_dimension(dimensions[i]), "call")
         ELSE IF i < Len(dimensions)
         THEN Position(l, i + 1, 1, 0, args_prio_dimension(dimensions[i + 1]), "call")
         ELSE Position("clients", 1, 1, 0, args_prio_clients(clients[1]), "call")
    ELSE IF m = 1
         THEN Position(l, i, 2, 0, args_dprio_clients(clients[i]), "call")
         ELSE IF i < Len(clients)
         THEN Position(l, i + 1, 1, 0, args_prio_clients(clients[i + 1]), "call")
         ELSE Position(l, i, m, r, a, "done")

Goto(p) ==
    /\ pc' = p.pc
    /\ loop' = p.loop
    /\ idx' = p.idx
    /\ mode' = p.mode
    /\ rep' = p.rep
    /\ args' = p.args

Abort(e) ==
    /\ pc' = "failed"
    /\ error' = e
    /\ UNCHANGED <<loop, idx, mode, rep, args>>

Init ==
    /\ pc = "call"
    /\ loop = "dimensions"
    /\ idx = 1
    /\ mode = 1
    /\ rep = 0
    /\ args = args_prio_dimension(dimensions[1])
    /\ result = NoResult
    /\ running = {}
    /\ launched = <<>>
    /\ exited = <<>>
    /\ printed = <<>>
    /\ error = NoError
    /\ varied = 0
    /\ last_stderr = <<>>

\* The environment's budget: an outcome other than the default stub's.
Deviates(returncode, stdout) == returncode # 0 \/ stdout # DefaultStdout

\* Deviating invocations come in one stretch: the first may be any invocation,
\* a later one directly follows a deviating one.
Spend(deviates) ==
    /\ deviates =>
          /\ varied < MaxVaried
          /\ \/ varied = 0
             \/ /\ Len(exited) > 0
                /\ Deviates(exited[Len(exited)].returncode,
                            exited[Len(exited)].stdout)
    /\ varied' = IF deviates THEN varied + 1 ELSE varied

-----------------------------------------------------------------------------
(* run(args) *)

\* subprocess.run starts the child and does not wait for it.
LaunchDetached ==
    /\ pc = "call"
    /\ launched' = Append(launched, [args |-> args, loop |-> loop])
    /\ running' = running \cup {Len(launched) + 1}
    /\ UNCHANGED <<pc, loop, idx, mode, rep, args, result, exited, printed,
                   error, varied>>

\* subprocess.run(args, ...) starts the child; the script blocks in it.
Launch ==
    /\ pc = "call"
    /\ pc' = "wait"
    /\ launched' = Append(launched, [args |-> args, loop |-> loop])
    /\ running' = running \cup {Len(launched) + 1}
    /\ UNCHANGED <<loop, idx, mode, rep, args, result, exited, printed, error,
                   varied>>

\* subprocess.run(args, ...) cannot start the child: OSError, uncaught.
LaunchFail ==
    /\ pc = "call"
    /\ Spend(TRUE)
    /\ launched' = Append(launched, [args |-> args, loop |-> loop])
    /\ Abort(OSError(args[1]))
    /\ UNCHANGED <<result, running, exited, printed>>

\* check=False: a non-zero exit status is returned like any other.
ExitNonZeroUnchecked ==
    /\ pc = "wait"
    /\ \E rc \in ReturnCodes \ {0}, out \in Stdouts, err \in Stderrs :
          /\ Spend(Deviates(rc, out))
          /\ running' = {}
          /\ exited' = Append(exited, [returncode |-> rc, stdout |-> out])
          /\ result' = CompletedProcess(rc, out, err)
          /\ pc' = "print"
    /\ UNCHANGED <<loop, idx, mode, rep, args, launched, printed, error>>

\* The child exits with status 0: subprocess.run returns the CompletedProcess.
ExitZero ==
    /\ pc = "wait"
    /\ \E out \in Stdouts, err \in Stderrs :
          /\ Spend(Deviates(0, out))
          /\ running' = {}
          /\ exited' = Append(exited, [returncode |-> 0, stdout |-> out])
          /\ result' = CompletedProcess(0, out, err)
          /\ pc' = "print"
    /\ UNCHANGED <<loop, idx, mode, rep, args, launched, printed, error>>

\* timeout=...: the script gives up waiting and raises TimeoutExpired.
ExitNonZeroOrTimeout ==
    /\ pc = "wait"
    /\ Abort([type |-> "TimeoutExpired", cmd |-> args])
    /\ UNCHANGED <<result, running, launched, exited, printed, varied>>

\* The error is caught and the same invocation tried again.
ExitNonZeroRetry ==
    /\ pc = "wait"
    /\ \E rc \in ReturnCodes \ {0}, out \in Stdouts, err \in Stderrs :
          /\ Spend(Deviates(rc, out))
          /\ running' = {}
          /\ exited' = Append(exited, [returncode |-> rc, stdout |-> out])
          /\ result' = NoResult
          /\ pc' = "call"
    /\ UNCHANGED <<loop, idx, mode, rep, args, launched, printed, error>>

\* The captured output of the failing child is printed before the error goes on.
ExitNonZeroEcho ==
    /\ pc = "wait"
    /\ \E rc \in ReturnCodes \ {0}, out \in Stdouts, err \in Stderrs :
          /\ Spend(Deviates(rc, out))
          /\ running' = {}
          /\ exited' = Append(exited, [returncode |-> rc, stdout |-> out])
          /\ result' = CompletedProcess(rc, out, err)
          /\ printed' = print(printed, utf8_decode_ignore(out).text)
          /\ Abort(CalledProcessError(rc, args))
    /\ UNCHANGED launched

\* The child exits with another status: check=True raises CalledProcessError,
\* which holds the command, the status and the captured output; uncaught.
ExitNonZero ==
    /\ pc = "wait"
    /\ \E rc \in ReturnCodes \ {0}, out \in Stdouts, err \in Stderrs :
          /\ Spend(Deviates(rc, out))
          /\ running' = {}
          /\ exited' = Append(exited, [returncode |-> rc, stdout |-> out])
          /\ result' = CompletedProcess(rc, out, err)
          /\ Abort(CalledProcessError(rc, args))
    /\ UNCHANGED <<launched, printed>>

\* stderr=subprocess.STDOUT: the child's stderr lands in the captured stdout.
PrintResultMerged ==
    /\ pc = "print"
    /\ LET decoded == utf8_decode(drop_last(result.stdout \o result.stderr))
       IN  /\ decoded.ok
           /\ printed' = print(printed, decoded.text)
    /\ result' = NoResult
    /\ Goto(after_run(loop, idx, mode, rep, args))
    /\ UNCHANGED <<running, launched, exited, error, varied>>

\* print(str(result.stdout[:-1], encoding="utf-8")), then the loops go on.
PrintResult ==
    /\ pc = "print"
    /\ LET decoded == utf8_decode(drop_last(result.stdout))
       IN  /\ decoded.ok
           /\ printed' = print(printed, decoded.text)
    /\ result' = NoResult
    /\ Goto(after_run(loop, idx, mode, rep, args))
    /\ UNCHANGED <<running, launched, exited, error, varied>>

\* str(...) raises UnicodeDecodeError: nothing is printed; uncaught.
DecodeFail ==
    /\ pc = "print"
    /\ ~utf8_decode(drop_last(result.stdout)).ok
    /\ Abort(UnicodeDecodeError)
    /\ UNCHANGED <<result, running, launched, exited, printed, varied>>

Next ==
    \/ Launch /\ UNCHANGED last_stderr
    \/ LaunchFail /\ UNCHANGED last_stderr
    \/ ExitZero /\ UNCHANGED last_stderr
    \/ ExitNonZero /\ UNCHANGED last_stderr
    \/ PrintResult /\ UNCHANGED last_stderr
    \/ DecodeFail /\ UNCHANGED last_stderr

Spec == Init /\ [][Next]_vars

\* The same script, with the history of what run throws away: the captured
\* stderr is noted when the output of its invocation is printed.
NextStderr ==
    \/ Launch /\ UNCHANGED last_stderr
    \/ LaunchFail /\ UNCHANGED last_stderr
    \/ ExitZero /\ UNCHANGED last_stderr
    \/ ExitNonZero /\ UNCHANGED last_stderr
    \/ PrintResult /\ last_stderr' = result.stderr
    \/ DecodeFail /\ UNCHANGED last_stderr

SpecStderr == Init /\ [][NextStderr]_vars

\* The script under the assumption that every step that can be taken is taken
\* in the end: the interpreter goes on, and a launched subprocess exits.
FairSpec == Spec /\ WF_vars(Next)

-----------------------------------------------------------------------------
(* What the properties below refer to *)

\* The UTF-8 encoding of a text, the inverse of decoding.
EncodeChar(c) ==
    IF c < 128 THEN <<c>>
    ELSE IF c < 2048 THEN <<192 + (c \div 64), 128 + (c % 64)>>
    ELSE IF c < 65536
    THEN <<224 + (c \div 4096), 128 + ((c \div 64) % 64), 128 + (c % 64)>>
    ELSE <<240 + (c \div 262144), 128 + ((c \div 4096) % 64),
           128 + ((c \div 64) % 64), 128 + (c % 64)>>

RECURSIVE utf8_encode(_)
utf8_encode(text) ==
    IF text = <<>> THEN <<>> ELSE EncodeChar(Head(text)) \o utf8_encode(Tail(text))

\* b is the UTF-8 encoding of some text.
IsUtf8(b) == LET d == utf8_decode(b) IN d.ok /\ utf8_encode(d.text) = b

AllButLast(s) == [k \in 1..(Len(s) - 1) |-> s[k]]

\* For each stdout the binary may write: what run makes of it.
RunText == [s \in Stdouts |-> utf8_decode(drop_last(s)).text]

\* For each stdout the binary may write: whether its bytes but the last are
\* the UTF-8 encoding of a text, and that text.
TextButLast ==
    [s \in Stdouts |->
        [valid |-> IsUtf8(AllButLast(s)), text |-> utf8_decode(AllButLast(s)).text]]

\* For each stdout the binary may write: whether all its bytes are the UTF-8
\* encoding of a text, and that text.
WholeText ==
    [s \in Stdouts |-> [valid |-> IsUtf8(s), text |-> utf8_decode(s).text]]

Comparison == "./target/release/examples/comparison"

ModeNames == <<"prio", "dprio">>

DimensionValues == <<"1", "8", "64", "256">>

ClientValues == <<"10000", "100000", "1000000">>

\* The k-th invocation of a sweep, k in 1..40: five in a row per (d, m) pair.
DimensionSlot(k) ==
    <<Comparison, "-f", ModeNames[(((k - 1) \div 5) % 2) + 1],
      "-d", DimensionValues[((k - 1) \div 10) + 1], "-c", "10000">>

\* The k-th invocation of a sweep, k in 41..70.
ClientSlot(k) ==
    <<Comparison, "-f", ModeNames[(((k - 41) \div 5) % 2) + 1],
      "-d", "1", "-c", ClientValues[((k - 41) \div 10) + 1]>>

\* The invocations of a full sweep, in order.
Sweep == [k \in 1..70 |-> IF k <= 40 THEN DimensionSlot(k) ELSE ClientSlot(k)]

CountOf(l, a) ==
    Cardinality({k \in 1..Len(launched) : launched[k].loop = l /\ launched[k].args = a})

-----------------------------------------------------------------------------
\* C1: in the dimension grid the binary is invoked, for every dimension d in
\* ("1","8","64","256") in that order and every mode m in ("prio","dprio") in
\* that order, with exactly [path, "-f", m, "-d", d, "-c", "10000"], 5 times
\* in a row before the next (d, m) pair: invocations 1..40 are these, and when
\* the grid is over, as at the end of the sweep, each pair has been invoked
\* exactly 5 times in it.
C1_DimensionGrid ==
    /\ \A k \in 1..Len(launched) :
          k <= 40 => /\ launched[k].args = Sweep[k]
                     /\ launched[k].loop = "dimensions"
    /\ (Len(launched) = 40 \/ pc = "done") =>
          \A d \in 1..4, m \in 1..2 :
             CountOf("dimensions",
                     <<Comparison, "-f", ModeNames[m], "-d", DimensionValues[d],
                       "-c", "10000">>) = 5

C1_Witness == pc = "call" /\ loop = "clients" /\ Len(launched) = 40

\* C2: in the client grid the binary is invoked, for every client count c in
\* ("10000","100000","1000000") and every mode m, with exactly
\* [path, "-f", m, "-d", "1", "-c", c], exactly 5 times: invocations 41..70
\* are these, and at the end each pair has been invoked exactly 5 times.
C2_ClientGrid ==
    /\ \A k \in 1..Len(launched) :
          k > 40 => /\ launched[k].args = Sweep[k]
                    /\ launched[k].loop = "clients"
    /\ pc = "done" =>
          \A c \in 1..3, m \in 1..2 :
             CountOf("clients",
                     <<Comparison, "-f", ModeNames[m], "-d", "1",
                       "-c", ClientValues[c]>>) = 5

C2_Witness == pc = "done" /\ launched[70].args[7] = "1000000"

\* C3: a sweep in which every invocation succeeds ends having launched exactly
\* 70 invocations, 40 in the dimension grid and 30 in the client grid, and at
\* no time have more than 70 been launched.
C3_TotalInvocations ==
    /\ Len(launched) <= 70
    /\ pc = "done" =>
          /\ Len(launched) = 70
          /\ Cardinality({k \in 1..70 : launched[k].loop = "dimensions"}) = 40
          /\ Cardinality({k \in 1..70 : launched[k].loop = "clients"}) = 30

C3_Witness == pc = "done" /\ Len(launched) = 70 /\ Len(printed) = 70

\* C4: once an invocation fails (the child exits with a status other than 0,
\* or cannot be launched) the sweep is over: the failing invocation is the
\* last one ever launched, whichever grid point and repetition it was.
C4_FailFast ==
    /\ [](/\ \A k \in 1..Len(exited) :
               exited[k].returncode # 0 =>
                  k = Len(launched) /\ pc = "failed" /\ running = {}
          /\ error.type = "OSError" => pc = "failed" /\ running = {})
    /\ [][pc = "failed" => launched' = launched /\ pc' = "failed"]_vars

C4_Witness ==
    /\ pc = "failed"
    /\ error.type = "CalledProcessError"
    /\ Len(launched) = 58
    /\ rep = 2

\* C5: the driver prints one output per successful invocation, in the order
\* of the invocations: the k-th printed text is what run makes of the stdout
\* of the k-th invocation.
C5_OutputOrder ==
    /\ Len(printed) <= Len(exited)
    /\ \A k \in 1..Len(printed) :
          printed[k] = RunText[exited[k].stdout]
    /\ pc \in {"call", "done"} => Len(printed) = Len(launched)

C5_Witness ==
    /\ Len(printed) >= 3
    /\ \E k \in 1..(Len(printed) - 1) : printed[k] # printed[k + 1]

\* C6: what run prints for an invocation that exited with status 0 is its
\* stdout without the final byte, whatever that byte is, as text: the printed
\* text is the one whose UTF-8 encoding is stdout but its last byte;
\* b"hello\n" prints
\* "hello"; a stdout that ends with a character other than a newline loses
\* that character; an empty stdout prints an empty text.
C6_DropsLastByte ==
    /\ pc \notin {"print", "failed"} => Len(printed) = Len(exited)
    /\ \A k \in 1..Len(printed) :
          LET s == exited[k].stdout
              t == printed[k]
          IN  /\ exited[k].returncode = 0
              /\ TextButLast[s].valid
              /\ t = TextButLast[s].text
              /\ s = <<104, 101, 108, 108, 111, 10>> => t = <<104, 101, 108, 108, 111>>
              /\ s = <<>> => t = <<>>
              /\ (Len(s) > 0 /\ s[Len(s)] # 10 /\ s[Len(s)] < 128 /\ WholeText[s].valid) =>
                    t = AllButLast(WholeText[s].text)

C6_Witness ==
    \E k \in 1..Len(printed) :
       /\ exited[k].stdout = <<104, 101, 108, 108, 111>>
       /\ printed[k] = <<104, 101, 108, 108>>

\* The place of an invocation in the sweep: grid, then value, then mode.
GridOrder(l) == IF l = "dimensions" THEN 1 ELSE 2

ValueOrder(l, a) ==
    IF l = "dimensions"
    THEN (IF a[5] = "1" THEN 1 ELSE IF a[5] = "8" THEN 2
          ELSE IF a[5] = "64" THEN 3 ELSE 4)
    ELSE (IF a[7] = "10000" THEN 1 ELSE IF a[7] = "100000" THEN 2 ELSE 3)

ModeOrder(a) == IF a[3] = "prio" THEN 1 ELSE 2

SweepRank(e) ==
    GridOrder(e.loop) * 100 + ValueOrder(e.loop, e.args) * 10 + ModeOrder(e.args)

\* C7: the order of the sweep is fixed.  Each invocation belongs to the same
\* grid as the one before it or to the next grid, within a grid to the same or
\* a later value of the list, and for one value "prio" comes before "dprio"
\* (the order is total, so it is stated of neighbours).  When the sweep moves
\* on to another mode, value or grid, the 5 invocations it leaves are all
\* there, and every invocation but the latest has completed: its output is
\* printed.
C7_SweepOrder ==
    \A k \in 1..(Len(launched) - 1) :
       LET here == SweepRank(launched[k])
           next == SweepRank(launched[k + 1])
       IN  /\ here <= next
           /\ k <= Len(printed)
           /\ here < next =>
                 /\ k >= 5
                 /\ \A n \in (k - 4)..k : SweepRank(launched[n]) = here
                 /\ k > 5 => SweepRank(launched[k - 5]) < here

C7_Witness ==
    /\ Len(launched) = 41
    /\ launched[41].loop = "clients"
    /\ launched[40].loop = "dimensions"
    /\ launched[6].args[3] = "dprio"

\* C8: at most one subprocess is in flight; an invocation is launched only
\* when every earlier one has exited and its output has been printed; the
\* driver prints only when no subprocess is running.
C8_Sequential ==
    /\ [](Cardinality(running) <= 1)
    /\ [][Len(launched') > Len(launched) =>
             /\ running = {}
             /\ Len(exited) = Len(launched)
             /\ Len(printed) = Len(launched)]_vars
    /\ [][printed' # printed => running = {} /\ running' = {}]_vars

C8_Witness == running = {2} /\ Len(printed) = 1 /\ pc = "wait"

\* C9 as stated: every subprocess failure, non-zero exit or failure to launch,
\* ends the sweep with an error that carries the failing argument vector and
\* the exit status.
C9_ErrorCarriesArgsAndStatus ==
    error.type \in {"CalledProcessError", "OSError"} =>
       /\ pc = "failed"
       /\ "cmd" \in DOMAIN error
       /\ "returncode" \in DOMAIN error
       /\ error.cmd = launched[Len(launched)].args

\* C9 amended: every subprocess failure ends the sweep with a fatal error, no
\* retry, no recovery.  A non-zero exit raises an error that carries the
\* failing argument vector and the exit status; a failure to launch raises an
\* operating-system error that names the executable only: it carries neither
\* the argument vector nor an exit status (there is none).
C9_FailureIsFatal ==
    /\ \A k \in 1..Len(exited) :
          exited[k].returncode # 0 =>
             /\ k = Len(launched)
             /\ pc = "failed"
             /\ error.type = "CalledProcessError"
             /\ error.cmd = launched[k].args
             /\ error.returncode = exited[k].returncode
    /\ error.type = "CalledProcessError" =>
          exited[Len(exited)].returncode # 0
    /\ error.type = "OSError" =>
          /\ pc = "failed"
          /\ Len(exited) = Len(launched) - 1
          /\ DOMAIN error = {"type", "filename"}
          /\ error.filename = launched[Len(launched)].args[1]
    /\ pc = "failed" <=> error # NoError

C9_Witness ==
    /\ error.type = "CalledProcessError"
    /\ error.returncode = -9
    /\ error.cmd = <<Comparison, "-f", "dprio", "-d", "64", "-c", "10000">>

\* C10: when an invocation exits with status 0 and its stdout without the
\* final byte is not valid UTF-8, the sweep ends with a fatal error: nothing
\* is printed for that invocation and none is launched after it.
C10_DecodeFailureIsFatal ==
    \A k \in 1..Len(exited) :
       (exited[k].returncode = 0 /\ ~TextButLast[exited[k].stdout].valid) =>
          /\ k = Len(launched)
          /\ Len(printed) = k - 1
          /\ \/ pc = "print"
             \/ pc = "failed" /\ error = UnicodeDecodeError

C10_Witness ==
    /\ pc = "failed"
    /\ error = UnicodeDecodeError
    /\ exited[Len(exited)].stdout = <<104, 195, 169>>
    /\ Len(printed) = Len(launched) - 1

\* C11: the captured stderr of a subprocess never reaches the driver's
\* standard output: every print appends a text that is a function of the
\* stdout of the invocation alone, whatever the subprocess wrote to stderr.
C11_StderrDiscarded ==
    /\ [][printed' # printed =>
             printed' = Append(printed, RunText[result.stdout])]_vars
    /\ [](last_stderr # <<>> =>
             /\ Len(printed) > 0
             /\ printed[Len(printed)] = RunText[exited[Len(printed)].stdout])

C11_Witness ==
    /\ last_stderr = <<101, 114, 114, 10>>
    /\ pc = "call"
    /\ Len(printed) = 3
    /\ printed[3] = <<104, 101, 108, 108, 111>>

\* C12: there is no timeout and no cancellation.  While a subprocess runs the
\* script does nothing but wait: the only step that can be taken is the exit
\* of that subprocess, so as long as it does not exit no invocation is
\* launched and nothing is printed.
C12_BlockedWhileRunning ==
    /\ [](running # {} =>
             /\ pc = "wait"
             /\ running = {Len(launched)}
             /\ Len(exited) = Len(launched) - 1)
    /\ [][running # {} =>
             /\ running' = {}
             /\ Len(exited') = Len(exited) + 1
             /\ launched' = launched
             /\ printed' = printed]_vars

C12_Witness == pc = "wait" /\ running = {41} /\ Len(printed) = 40

\* How far the script is from its end, counted in steps: three per invocation
\* not launched yet, less what the current invocation has gone through.
Distance ==
    IF pc \in {"done", "failed"} THEN 0
    ELSE 3 * (70 - Len(launched))
         + (IF pc = "wait" THEN 2 ELSE IF pc = "print" THEN 1 ELSE 0)

\* C13: if every launched subprocess exits in the end, the sweep terminates in
\* the end.  Until the script has ended there is a step to take: a launch, the
\* exit of the running subprocess, or the decoding of a result held, which
\* either prints or fails.  Every step brings the end nearer.  The end is
\* either 70 invocations launched and printed or an error at the first
\* failing invocation, the only one whose output is not printed.
C13_Terminates ==
    /\ [](\/ pc \in {"done", "failed"}
          \/ pc = "call" /\ ENABLED <<Launch /\ UNCHANGED last_stderr>>_vars
          \/ pc = "wait" /\ running # {}
             /\ ENABLED <<ExitZero /\ UNCHANGED last_stderr>>_vars
          \/ pc = "print" /\ result.held /\ result.stdout \in Stdouts)
    /\ [](Distance >= 0)
    /\ [][Distance' < Distance]_vars
    /\ [](pc = "done" => error = NoError /\ Len(launched) = 70 /\ Len(printed) = 70)
    /\ [](pc = "failed" => error # NoError /\ Len(printed) = Len(launched) - 1)

C13_Witness == pc = "done" /\ error = NoError /\ varied = 1 /\ running = {}

\* C14: the number of outputs printed is the number of invocations that
\* completed successfully: the child exited with status 0, its output could
\* be decoded and run has printed it.  A failing invocation prints nothing,
\* also when it wrote bytes to stdout before it exited with another status,
\* and leaves the outputs printed before as they were.
Succeeded(k) ==
    /\ exited[k].returncode = 0
    /\ TextButLast[exited[k].stdout].valid
    /\ ~(pc = "print" /\ k = Len(exited))

C14_PrintedCountsSuccesses ==
    /\ [](Len(printed) = Cardinality({k \in 1..Len(exited) : Succeeded(k)}))
    /\ [](pc = "failed" => Len(printed) = Len(launched) - 1)
    /\ [][pc' = "failed" => printed' = printed]_vars

C14_Witness ==
    /\ pc = "failed"
    /\ error.type = "CalledProcessError"
    /\ result.stdout = <<104, 195, 169, 10>>
    /\ Len(launched) = 8
    /\ Len(printed) = 7

\* C15: the two grids share one configuration.  In a full sweep the argument
\* vector with "-d" "1" "-c" "10000" has been invoked 10 times for each mode,
\* 5 times in each grid and not all in a row, every other argument vector
\* exactly 5 times, and there are 12 distinct argument vectors in all.
Invocations(a) == {k \in 1..Len(launched) : launched[k].args = a}

C15_GridsOverlap ==
    pc = "done" =>
       LET used == {launched[k].args : k \in 1..Len(launched)}
       IN  /\ Cardinality(used) = 12
           /\ \A a \in used :
                 IF a[5] = "1" /\ a[7] = "10000"
                 THEN /\ Cardinality(Invocations(a)) = 10
                      /\ Cardinality({k \in Invocations(a) :
                                         launched[k].loop = "dimensions"}) = 5
                      /\ Cardinality({k \in Invocations(a) :
                                         launched[k].loop = "clients"}) = 5
                      /\ \E k \in 1..Len(launched) :
                            /\ k \notin Invocations(a)
                            /\ \E i, j \in Invocations(a) : i < k /\ k < j
                 ELSE Cardinality(Invocations(a)) = 5
           /\ \A m \in 1..2 :
                 <<Comparison, "-f", ModeNames[m], "-d", "1", "-c", "10000">> \in used

C15_Witness ==
    /\ pc = "done"
    /\ launched[1].args = launched[41].args
    /\ launched[6].args = launched[46].args
    /\ launched[5].args # launched[6].args

====
